---- MODULE Spec2Model ----
(***************************************************************************)
(* pytreeprint: the directory-tree renderer of src/src/pytreeprint.        *)
(*                                                                         *)
(* A directory tree is built by the environment (the way the test          *)
(* fixtures build it, with mkdir and write_text), then generate_tree is    *)
(* called on its root.  Names, prefixes and patterns are sequences of      *)
(* one-character strings, so that sorting, case folding and regular        *)
(* expression matching are computed character by character.                *)
(*                                                                         *)
(* Spec is the specification of generate_tree on the trees the             *)
(* environment builds; CliSpec is the specification of a run of main()     *)
(* of cli.py on a target directory, from parse_args to the written file,   *)
(* and of a second run after it; WalkSpec is the specification of the      *)
(* recursion of generate_tree call by call, on trees with symbolic links.  *)
(***************************************************************************)
EXTENDS Integers, Sequences, FiniteSets, TLC

VARIABLES fs, pc, call, result

vars == <<fs, pc, call, result>>

(***************************************************************************)
(* Bounds of the model.                                                    *)
(***************************************************************************)
MaxEntries == 3
MaxDepthArg == 2

(***************************************************************************)
(* Characters.  Alphabet lists the characters of the model in code point   *)
(* order; Python compares strings by code point.                           *)
(***************************************************************************)
Alphabet ==
    <<"\n", "-", ".", "0", "1", "2", "3", "4", "5", "6", "7", "8", "9",
      "A", "B", "C", "D", "E", "F", "G", "H", "I", "J", "K", "L", "M",
      "N", "O", "P", "Q", "R", "S", "T", "U", "V", "W", "X", "Y", "Z",
      "_",
      "a", "b", "c", "d", "e", "f", "g", "h", "i", "j", "k", "l", "m",
      "n", "o", "p", "q", "r", "s", "t", "u", "v", "w", "x", "y", "z">>

Ord(c) == CHOOSE i \in 1..Len(Alphabet) : Alphabet[i] = c

IsUpper(c) == Ord("A") <= Ord(c) /\ Ord(c) <= Ord("Z")

\* str.lower() on one character.
LowerChar(c) ==
    IF IsUpper(c) THEN Alphabet[Ord(c) - Ord("A") + Ord("a")] ELSE c

\* str.lower()
Lower(s) == [i \in 1..Len(s) |-> LowerChar(s[i])]

\* s < t for Python strings: lexicographic by code point.
RECURSIVE StrLess(_, _)
StrLess(s, t) ==
    IF t = <<>> THEN FALSE
    ELSE IF s = <<>> THEN TRUE
    ELSE IF Ord(Head(s)) # Ord(Head(t)) THEN Ord(Head(s)) < Ord(Head(t))
    ELSE StrLess(Tail(s), Tail(t))

(***************************************************************************)
(* Regular expressions.  A pattern is a sequence of tokens: "^", "$",      *)
(* ".+" (one or more characters other than a newline) or a literal         *)
(* character (an escaped dot is the literal ".").                          *)
(***************************************************************************)
Anchored(name) == <<"^">> \o name \o <<"$">>

DEFAULT_IGNORE_PATTERNS ==
    { Anchored(<<".", "g", "i", "t">>),
      Anchored(<<".", "p", "y", "t", "e", "s", "t", "_", "c", "a", "c", "h", "e">>),
      Anchored(<<".", "m", "y", "p", "y", "_", "c", "a", "c", "h", "e">>),
      Anchored(<<"_", "_", "p", "y", "c", "a", "c", "h", "e", "_", "_">>),
      Anchored(<<"n", "o", "d", "e", "_", "m", "o", "d", "u", "l", "e", "s">>),
      Anchored(<<".", "v", "s", "c", "o", "d", "e">>),
      Anchored(<<".", "i", "d", "e", "a">>),
      Anchored(<<".", "v", "s">>),
      Anchored(<<".", "v", "e", "n", "v">>),
      Anchored(<<"v", "e", "n", "v">>),
      Anchored(<<"e", "n", "v">>),
      Anchored(<<".", "e", "n", "v">>),
      Anchored(<<".", "t", "o", "x">>),
      Anchored(<<".", "c", "o", "v", "e", "r", "a", "g", "e">>),
      Anchored(<<".", "s", "a", "s", "s", "-", "c", "a", "c", "h", "e">>),
      Anchored(<<".", "n", "e", "x", "t">>),
      Anchored(<<"d", "i", "s", "t">>),
      Anchored(<<"b", "u", "i", "l", "d">>),
      Anchored(<<".", ".+", "_", "c", "a", "c", "h", "e">>) }

\* Optional values: None, or Some(v).
None == [some |-> FALSE]

Some(v) == [some |-> TRUE, v |-> v]

\* re.compile of the alternation of the patterns; None for the empty set.
\* The compiled alternation is represented by the set of its branches.
compile_ignore_pattern(patterns) ==
    IF patterns = {} THEN None ELSE Some(patterns)

\* The regex engine on one branch: does pattern p from token i match the
\* string s at position j (Pattern.match: anchored at the start of the
\* string only, the match may end before the end of the string).
RECURSIVE MatchAt(_, _, _, _)
MatchAt(p, i, s, j) ==
    IF i > Len(p) THEN TRUE
    ELSE CASE p[i] = "^" -> j = 1 /\ MatchAt(p, i + 1, s, j)
           [] p[i] = "$" ->
                /\ \/ j = Len(s) + 1
                   \/ j = Len(s) /\ s[j] = "\n"
                /\ MatchAt(p, i + 1, s, j)
           [] p[i] = ".+" ->
                \E k \in (j + 1)..(Len(s) + 1) :
                    /\ \A m \in j..(k - 1) : s[m] # "\n"
                    /\ MatchAt(p, i + 1, s, k)
           [] OTHER ->
                j <= Len(s) /\ s[j] = p[i] /\ MatchAt(p, i + 1, s, j + 1)

\* exclude_pattern.match(name): some branch of the alternation matches.
PatternMatch(exclude_pattern, name) ==
    \E p \in exclude_pattern.v : MatchAt(p, 1, name, 1)

(***************************************************************************)
(* The file system.  fs is the sequence of the entries below the root      *)
(* (entry 0); an entry records its parent directory, its kind, its bare    *)
(* name and its size in bytes.  A directory lists its entries in the       *)
(* order of their creation (iterdir returns them in an arbitrary order;    *)
(* every order is the creation order of some tree).                        *)
(***************************************************************************)
Root == 0

IsFile(tree, item) == tree[item].kind = "file"

\* A directory the process may not read is a directory all the same: is_dir
\* asks stat, which needs no permission on the directory itself.
IsDir(tree, item) ==
    IF item = Root THEN TRUE ELSE tree[item].kind \in {"dir", "unreadable_dir"}

NameOf(tree, item) == tree[item].name

RECURSIVE IterdirFrom(_, _, _)
IterdirFrom(tree, directory, n) ==
    IF n > Len(tree) THEN <<>>
    ELSE (IF tree[n].parent = directory THEN <<n>> ELSE <<>>)
         \o IterdirFrom(tree, directory, n + 1)

\* list(directory.iterdir())
Iterdir(tree, directory) == IterdirFrom(tree, directory, 1)

\* directory.iterdir() raises OSError (PermissionError) on a directory the
\* process may not read.
IterdirRaises(tree, directory) ==
    directory # Root /\ tree[directory].kind = "unreadable_dir"

(***************************************************************************)
(* utils.py                                                                *)
(***************************************************************************)
\* Variant: the key is the name as it is.
SortKeyCaseSensitive(tree, item) == NameOf(tree, item)

\* key=lambda file_name: file_name.name.lower()

SortKey(tree, item) == Lower(NameOf(tree, item))

\* sorted(): stable; x goes after every element whose key is not greater.
InsertSorted(tree, sorted, x) ==
    LET k == Cardinality({i \in 1..Len(sorted) :
                 ~StrLess(SortKey(tree, x), SortKey(tree, sorted[i]))})
    IN SubSeq(sorted, 1, k) \o <<x>> \o SubSeq(sorted, k + 1, Len(sorted))

\* Variant: the items are left in the order of the listing.
SortedAsListed(tree, items) == items

RECURSIVE Sorted(_, _)
Sorted(tree, items) ==
    IF items = <<>> THEN <<>>
    ELSE InsertSorted(tree, Sorted(tree, SubSeq(items, 1, Len(items) - 1)),
                      items[Len(items)])

TreeStats == [directories |-> 0, files |-> 0, total_size |-> 0]

Excluded(tree, exclude_pattern, item) ==
    exclude_pattern.some /\ PatternMatch(exclude_pattern, NameOf(tree, item))

\* Variant: the two lists are returned in the wrong order.
process_directory_items_swapped(tree, items, stats, exclude_pattern) ==
    LET files0 == Sorted(tree, SelectSeq(items, LAMBDA i : IsFile(tree, i)))
        dirs0  == Sorted(tree, SelectSeq(items, LAMBDA i : IsDir(tree, i)))
        files  == SelectSeq(files0, LAMBDA f : ~Excluded(tree, exclude_pattern, f))
        dirs   == SelectSeq(dirs0, LAMBDA d : ~Excluded(tree, exclude_pattern, d))
    IN [files |-> dirs,
        dirs  |-> files,
        stats |-> [stats EXCEPT !.directories = @ + Len(dirs),
                                !.files = @ + Len(files)]]

\* Variant: the stats are updated before the exclusion filter is applied.
process_directory_items_count_first(tree, items, stats, exclude_pattern) ==
    LET files0 == Sorted(tree, SelectSeq(items, LAMBDA i : IsFile(tree, i)))
        dirs0  == Sorted(tree, SelectSeq(items, LAMBDA i : IsDir(tree, i)))
        files  == SelectSeq(files0, LAMBDA f : ~Excluded(tree, exclude_pattern, f))
        dirs   == SelectSeq(dirs0, LAMBDA d : ~Excluded(tree, exclude_pattern, d))
    IN [files |-> files,
        dirs  |-> dirs,
        stats |-> [stats EXCEPT !.directories = @ + Len(dirs0),
                                !.files = @ + Len(files0)]]

\* Variant: the counters are assigned, not incremented.
process_directory_items_assign(tree, items, stats, exclude_pattern) ==
    LET files0 == Sorted(tree, SelectSeq(items, LAMBDA i : IsFile(tree, i)))
        dirs0  == Sorted(tree, SelectSeq(items, LAMBDA i : IsDir(tree, i)))
        files  == SelectSeq(files0, LAMBDA f : ~Excluded(tree, exclude_pattern, f))
        dirs   == SelectSeq(dirs0, LAMBDA d : ~Excluded(tree, exclude_pattern, d))
    IN [files |-> files,
        dirs  |-> dirs,
        stats |-> [stats EXCEPT !.directories = Len(dirs),
                                !.files = Len(files)]]

\* Variant: the directory that is listed is counted with its subdirectories.
process_directory_items_count_self(tree, items, stats, exclude_pattern) ==
    LET files0 == Sorted(tree, SelectSeq(items, LAMBDA i : IsFile(tree, i)))
        dirs0  == Sorted(tree, SelectSeq(items, LAMBDA i : IsDir(tree, i)))
        files  == SelectSeq(files0, LAMBDA f : ~Excluded(tree, exclude_pattern, f))
        dirs   == SelectSeq(dirs0, LAMBDA d : ~Excluded(tree, exclude_pattern, d))
    IN [files |-> files,
        dirs  |-> dirs,
        stats |-> [stats EXCEPT !.directories = @ + Len(dirs) + 1,
                                !.files = @ + Len(files)]]

process_directory_items(tree, items, stats, exclude_pattern) ==
    LET files0 == Sorted(tree, SelectSeq(items, LAMBDA i : IsFile(tree, i)))
        dirs0  == Sorted(tree, SelectSeq(items, LAMBDA i : IsDir(tree, i)))
        files  == SelectSeq(files0, LAMBDA f : ~Excluded(tree, exclude_pattern, f))
        dirs   == SelectSeq(dirs0, LAMBDA d : ~Excluded(tree, exclude_pattern, d))
    IN [files |-> files,
        dirs  |-> dirs,
        stats |-> [stats EXCEPT !.directories = @ + Len(dirs),
                                !.files = @ + Len(files)]]

(***************************************************************************)
(* tree.py.  The box-drawing glyphs are written in ASCII: "L---" is the    *)
(* last-sibling connector, "+---" the non-last connector, "|   " the       *)
(* continuation guide and "    " the blank guide.                          *)
(***************************************************************************)
COLORS ==
    [reset |-> "ESC[0m", blue |-> "ESC[94m", green |-> "ESC[92m",
     yellow |-> "ESC[93m", cyan |-> "ESC[96m", magenta |-> "ESC[95m",
     red |-> "ESC[91m"]

\* FILE_COLORS.get(suffix, "")
FILE_COLORS(suffix) ==
    CASE suffix \in
        { <<".", "e", "x", "e">>, <<".", "s", "h">>, <<".", "b", "a",
          "t">>, <<".", "c", "m", "d">>, <<".", "p", "s", "1">>, <<".",
          "p", "y">> } -> "green"
      [] suffix \in
        { <<".", "m", "p", "3">>, <<".", "w", "a", "v">>, <<".", "f",
          "l", "a", "c">>, <<".", "m", "4", "a">>, <<".", "o", "g",
          "g">>, <<".", "m", "p", "4">>, <<".", "a", "v", "i">>, <<".",
          "m", "k", "v">>, <<".", "m", "o", "v">>, <<".", "j", "p",
          "g">>, <<".", "j", "p", "e", "g">>, <<".", "p", "n", "g">>,
          <<".", "g", "i", "f">>, <<".", "b", "m", "p">> } -> "cyan"
      [] suffix \in
        { <<".", "z", "i", "p">>, <<".", "r", "a", "r">>, <<".", "7",
          "z">>, <<".", "t", "a", "r">>, <<".", "g", "z">> } -> "magenta"
      [] suffix \in
        { <<".", "j", "s", "o", "n">>, <<".", "x", "m", "l">>, <<".",
          "y", "a", "m", "l">>, <<".", "y", "m", "l">>, <<".", "i", "n",
          "i">>, <<".", "c", "o", "n", "f">> } -> "red"
      [] OTHER -> ""

\* COLORS.get(color, "")
ColorCode(color) == IF color = "" THEN "" ELSE COLORS[color]

\* pathlib's PurePath.suffix: from the last dot, unless that dot is the
\* first or the last character of the name.
Suffix(name) ==
    LET dots == {i \in 1..Len(name) : name[i] = "."}
        last == CHOOSE i \in dots : \A k \in dots : k <= i
    IN IF dots = {} THEN <<>>
       ELSE IF last = 1 \/ last = Len(name) THEN <<>>
       ELSE SubSeq(name, last, Len(name))

\* f"{size:.1f}": the value num/den to one decimal, in tenths (round half
\* to even, as the float formatting does).
OneDecimal(num, den) ==
    LET q == (10 * num) \div den
        r == (10 * num) % den
    IN IF 2 * r > den THEN q + 1
       ELSE IF 2 * r = den THEN q + (q % 2)
       ELSE q

RECURSIVE SizeUnits(_, _, _)
SizeUnits(num, den, units) ==
    IF units = <<>> THEN [tenths |-> OneDecimal(num, den), unit |-> "PB"]
    ELSE IF num < 1024 * den
         THEN [tenths |-> OneDecimal(num, den), unit |-> Head(units)]
         ELSE SizeUnits(num, den * 1024, Tail(units))

get_size_str(size) == SizeUnits(size, 1, <<"B", "KB", "MB", "GB", "TB">>)

get_color_for_file(tree, path, use_color) ==
    IF ~use_color THEN <<"", "">>
    ELSE IF IsDir(tree, path) THEN <<COLORS.blue, COLORS.reset>>
    ELSE <<ColorCode(FILE_COLORS(Lower(Suffix(NameOf(tree, path))))),
           COLORS.reset>>

\* The bracketed parts of the info string, in order.
get_file_info(tree, path, show_size, show_date) ==
    (IF show_size /\ IsFile(tree, path)
     THEN <<[size |-> get_size_str(tree[path].size)]>> ELSE <<>>)
    \o (IF show_date THEN <<[mtime |-> path]>> ELSE <<>>)

NodeConfig(show_size, show_date, use_color) ==
    [show_size |-> show_size, show_date |-> show_date, use_color |-> use_color]

Connector(is_last_item) == IF is_last_item THEN "L---" ELSE "+---"

\* The rendered line, as the fields of the f-string in their order; item
\* names the entry the line was rendered for.
process_tree_node(tree, item, prefix, config, is_last_item) ==
    LET color == get_color_for_file(tree, item, config.use_color)
    IN [item |-> item,
        prefix |-> prefix,
        connector |-> Connector(is_last_item),
        color_start |-> color[1],
        name |-> NameOf(tree, item),
        color_end |-> color[2],
        info |-> get_file_info(tree, item, config.show_size, config.show_date)]

\* The lines of the files of one level ("# Process files").
FileLines(tree, files, dirs, prefix, cfg) ==
    [index \in 1..Len(files) |->
        process_tree_node(tree, files[index], prefix,
            NodeConfig(cfg.show_size, cfg.show_date, cfg.use_color),
            index = Len(files) /\ dirs = <<>>)]

\* Variant: the check of the other packages' generate_tree (>).
DepthReachedStrict(max_depth, current_depth) ==
    max_depth.some /\ current_depth > max_depth.v

\* Variant: the limit is reached one level early.
DepthReachedEarly(max_depth, current_depth) ==
    max_depth.some /\ current_depth + 1 >= max_depth.v

\* "if max_depth is not None and current_depth >= max_depth: return lines"
DepthReached(max_depth, current_depth) ==
    max_depth.some /\ current_depth >= max_depth.v

\* Variant: the two guides are exchanged.
NewPrefixSwapped(prefix, is_last_item) ==
    prefix \o <<IF is_last_item THEN "|   " ELSE "    ">>

NewPrefix(prefix, is_last_item) ==
    prefix \o <<IF is_last_item THEN "    " ELSE "|   ">>

\* generate_tree returns its lines; the stats object it updates in place is
\* returned with them, and so is listed, the record of the directories it
\* has listed (one entry per call of process_directory_items, with the
\* numbers of files and directories that call added to the stats).
\* raised is the directory whose listing raised, if one did: nothing
\* catches the exception, so every call on the stack is left without a
\* return value and only the stats object keeps what was counted.
RECURSIVE generate_tree(_, _, _, _, _, _, _)
RECURSIVE DirLoop(_, _, _, _, _, _, _, _, _)
\* Variant: a subdirectory is listed a second time after its subtree has
\* been rendered.
DirLoopListedAgain(tree, dirs, index, lines, prefix, current_depth, stats, listed, cfg) ==
    IF index > Len(dirs)
    THEN [lines |-> lines, stats |-> stats, listed |-> listed, raised |-> None]
    ELSE LET item == dirs[index]
             is_last_item == index = Len(dirs)
             line == process_tree_node(tree, item, prefix,
                         NodeConfig(cfg.show_size, cfg.show_date, cfg.use_color),
                         is_last_item)
             sub == generate_tree(tree, item, NewPrefix(prefix, is_last_item),
                                  current_depth + 1, stats, listed, cfg)
             again == Append(sub.listed,
                             [directory |-> item,
                              files |-> 0, dirs |-> 0])
         IN IF sub.raised.some
            THEN sub
            ELSE DirLoop(tree, dirs, index + 1, (lines \o <<line>>) \o sub.lines,
                         prefix, current_depth, sub.stats, again, cfg)

\* Variant: a subdirectory whose listing raises is skipped, and the loop
\* goes on with the lines it has.
DirLoopSkipUnreadable(tree, dirs, index, lines, prefix, current_depth, stats, listed, cfg) ==
    IF index > Len(dirs)
    THEN [lines |-> lines, stats |-> stats, listed |-> listed, raised |-> None]
    ELSE LET item == dirs[index]
             is_last_item == index = Len(dirs)
             line == process_tree_node(tree, item, prefix,
                         NodeConfig(cfg.show_size, cfg.show_date, cfg.use_color),
                         is_last_item)
             sub == generate_tree(tree, item, NewPrefix(prefix, is_last_item),
                                  current_depth + 1, stats, listed, cfg)
         IN DirLoop(tree, dirs, index + 1, (lines \o <<line>>) \o sub.lines,
                    prefix, current_depth, sub.stats, sub.listed, cfg)

\* Variant: the lines of a subdirectory's subtree are added before its own
\* line.
DirLoopSubtreeFirst(tree, dirs, index, lines, prefix, current_depth, stats, listed, cfg) ==
    IF index > Len(dirs)
    THEN [lines |-> lines, stats |-> stats, listed |-> listed, raised |-> None]
    ELSE LET item == dirs[index]
             is_last_item == index = Len(dirs)
             line == process_tree_node(tree, item, prefix,
                         NodeConfig(cfg.show_size, cfg.show_date, cfg.use_color),
                         is_last_item)
             sub == generate_tree(tree, item, NewPrefix(prefix, is_last_item),
                                  current_depth + 1, stats, listed, cfg)
         IN IF sub.raised.some
            THEN sub
            ELSE DirLoop(tree, dirs, index + 1, (lines \o sub.lines) \o <<line>>,
                         prefix, current_depth, sub.stats, sub.listed, cfg)

generate_tree(tree, directory, prefix, current_depth, stats, listed, cfg) ==
    LET items == Iterdir(tree, directory)
        pdi   == process_directory_items(tree, items, stats, cfg.exclude_pattern)
        lines == FileLines(tree, pdi.files, pdi.dirs, prefix, cfg)
        log   == Append(listed, [directory |-> directory,
                                 files |-> Len(pdi.files),
                                 dirs |-> Len(pdi.dirs)])
    IN IF IterdirRaises(tree, directory)
       THEN [lines |-> <<>>, stats |-> stats, listed |-> listed,
             raised |-> Some(directory)]
       ELSE IF DepthReached(cfg.max_depth, current_depth)
       THEN [lines |-> lines, stats |-> pdi.stats, listed |-> log,
             raised |-> None]
       ELSE DirLoop(tree, pdi.dirs, 1, lines, prefix, current_depth,
                    pdi.stats, log, cfg)

\* "for index, item in enumerate(dirs)": the iterations from index on.
DirLoop(tree, dirs, index, lines, prefix, current_depth, stats, listed, cfg) ==
    IF index > Len(dirs)
    THEN [lines |-> lines, stats |-> stats, listed |-> listed, raised |-> None]
    ELSE LET item == dirs[index]
             is_last_item == index = Len(dirs)
             line == process_tree_node(tree, item, prefix,
                         NodeConfig(cfg.show_size, cfg.show_date, cfg.use_color),
                         is_last_item)
             sub == generate_tree(tree, item, NewPrefix(prefix, is_last_item),
                                  current_depth + 1, stats, listed, cfg)
         IN IF sub.raised.some
            THEN sub
            ELSE DirLoop(tree, dirs, index + 1, (lines \o <<line>>) \o sub.lines,
                         prefix, current_depth, sub.stats, sub.listed, cfg)

(***************************************************************************)
(* The state machine.  The environment builds the tree below the root      *)
(* entry by entry (mkdir, write_text); then generate_tree is called once   *)
(* on the root with a fresh TreeStats.                                     *)
(***************************************************************************)
\* The names the environment gives to the entries it creates.
\* env is a default name; Env differs from it in case only; aenv contains
\* it and comes after Env by code point but before it when case is ignored;
\* the last one is env followed by a newline.
NameEnv == <<"e", "n", "v">>

NameEnvCap == <<"E", "n", "v">>

NameAEnv == <<"a", "e", "n", "v">>

NameEnvNewline == <<"e", "n", "v", "\n">>

Names == {NameEnv, NameEnvCap, NameAEnv, NameEnvNewline}

\* len(content) of a file the environment writes.
Sizes == {2}

\* The tree of the fixture test_directory_structure.
TestDirectoryStructureTree ==
    << [parent |-> 0, kind |-> "file", size |-> 7,
         name |-> <<"f", "i", "l", "e", "1", ".", "t", "x", "t">>],
       [parent |-> 0, kind |-> "file", size |-> 14,
         name |-> <<"f", "i", "l", "e", "2", ".", "p", "y">>],
       [parent |-> 0, kind |-> "dir", size |-> 0,
         name |-> <<"d", "i", "r", "1">>],
       [parent |-> 0, kind |-> "dir", size |-> 0,
         name |-> <<"d", "i", "r", "2">>],
       [parent |-> 3, kind |-> "file", size |-> 14,
         name |-> <<"n", "e", "s", "t", "e", "d", "_", "f", "i", "l", "e", ".", "t", "x", "t">>],
       [parent |-> 4, kind |-> "dir", size |-> 0,
         name |-> <<"n", "e", "s", "t", "e", "d", "_", "d", "i", "r">>],
       [parent |-> 6, kind |-> "file", size |-> 11,
         name |-> <<"d", "e", "e", "p", "_", "f", "i", "l", "e", ".", "m", "d">>] >>

\* The tree test_ignore_patterns builds on top of the fixture mock_directory.
IgnorePatternsTestTree ==
    << [parent |-> 0, kind |-> "dir", size |-> 0,
         name |-> <<"d", "i", "r", "1">>],
       [parent |-> 0, kind |-> "dir", size |-> 0,
         name |-> <<"d", "i", "r", "2">>],
       [parent |-> 0, kind |-> "dir", size |-> 0,
         name |-> <<"_", "_", "p", "y", "c", "a", "c", "h", "e", "_", "_">>],
       [parent |-> 1, kind |-> "file", size |-> 7,
         name |-> <<"f", "i", "l", "e", "1", ".", "t", "x", "t">>],
       [parent |-> 2, kind |-> "file", size |-> 14,
         name |-> <<"f", "i", "l", "e", "2", ".", "p", "y">>],
       [parent |-> 3, kind |-> "file", size |-> 0,
         name |-> <<"m", "o", "d", "u", "l", "e", ".", "c", "p", "y", "t", "h", "o", "n", "-", "3", "9", ".", "p", "y", "c">>] >>

\* The tree test_max_depth builds on top of the fixture mock_directory.
MaxDepthTestTree ==
    << [parent |-> 0, kind |-> "dir", size |-> 0,
         name |-> <<"d", "i", "r", "1">>],
       [parent |-> 0, kind |-> "dir", size |-> 0,
         name |-> <<"d", "i", "r", "2">>],
       [parent |-> 0, kind |-> "dir", size |-> 0,
         name |-> <<"l", "e", "v", "e", "l", "1">>],
       [parent |-> 1, kind |-> "file", size |-> 7,
         name |-> <<"f", "i", "l", "e", "1", ".", "t", "x", "t">>],
       [parent |-> 2, kind |-> "file", size |-> 14,
         name |-> <<"f", "i", "l", "e", "2", ".", "p", "y">>],
       [parent |-> 3, kind |-> "dir", size |-> 0,
         name |-> <<"l", "e", "v", "e", "l", "2">>],
       [parent |-> 3, kind |-> "file", size |-> 7,
         name |-> <<"s", "h", "a", "l", "l", "o", "w", "_", "f", "i", "l", "e", ".", "t", "x", "t">>],
       [parent |-> 6, kind |-> "dir", size |-> 0,
         name |-> <<"l", "e", "v", "e", "l", "3">>],
       [parent |-> 8, kind |-> "file", size |-> 4,
         name |-> <<"d", "e", "e", "p", "_", "f", "i", "l", "e", ".", "t", "x", "t">>] >>

MaxDepths == {None} \cup {Some(d) : d \in 0..MaxDepthArg}

ExcludePatterns == {None, compile_ignore_pattern(DEFAULT_IGNORE_PATTERNS)}

\* The display flags generate_tree is called with: none, the sizes, all.
Displays ==
    { NodeConfig(FALSE, FALSE, FALSE),
      NodeConfig(TRUE, FALSE, FALSE),
      NodeConfig(TRUE, TRUE, TRUE) }

Init ==
    /\ fs = <<>>
    /\ pc = "setup"
    /\ call = None
    /\ result = None

\* A new entry may be created in the root or in an existing directory that
\* has no entry of that name yet.  Entries are numbered parent by parent.
CanCreate(parent, name) ==
    /\ pc = "setup"
    /\ Len(fs) < MaxEntries
    /\ IsDir(fs, parent)
    /\ \A n \in 1..Len(fs) : fs[n].parent <= parent
    /\ \A n \in 1..Len(fs) : fs[n].parent = parent => fs[n].name # name

\* (parent / name).mkdir()
Mkdir ==
    \E parent \in 0..Len(fs), name \in Names :
        /\ CanCreate(parent, name)
        /\ fs' = Append(fs, [parent |-> parent, kind |-> "dir",
                            name |-> name, size |-> 0])
        /\ UNCHANGED <<pc, call, result>>

\* (parent / name).write_text(content)
WriteText ==
    \E parent \in 0..Len(fs), name \in Names, size \in Sizes :
        /\ CanCreate(parent, name)
        /\ fs' = Append(fs, [parent |-> parent, kind |-> "file",
                            name |-> name, size |-> size])
        /\ UNCHANGED <<pc, call, result>>

\* generate_tree(directory=root, stats=TreeStats(), ...)
GenerateTreeCall ==
    \E max_depth \in MaxDepths, exclude_pattern \in ExcludePatterns,
       display \in Displays :
        LET cfg == [max_depth |-> max_depth,
                    exclude_pattern |-> exclude_pattern,
                    show_size |-> display.show_size,
                    show_date |-> display.show_date,
                    use_color |-> display.use_color]
        IN /\ pc = "setup"
           /\ pc' = "done"
           /\ call' = Some(cfg)
           /\ result' = Some(generate_tree(fs, Root, <<>>, 0, TreeStats, <<>>, cfg))
           /\ UNCHANGED fs

\* The fixture test_directory_structure builds its whole tree.
TestDirectoryStructure ==
    /\ pc = "setup"
    /\ fs = <<>>
    /\ fs' = TestDirectoryStructureTree
    /\ UNCHANGED <<pc, call, result>>

\* test_ignore_patterns builds its whole tree.
IgnorePatternsTest ==
    /\ pc = "setup"
    /\ fs = <<>>
    /\ fs' = IgnorePatternsTestTree
    /\ UNCHANGED <<pc, call, result>>

\* test_max_depth builds its whole tree.
MaxDepthTest ==
    /\ pc = "setup"
    /\ fs = <<>>
    /\ fs' = MaxDepthTestTree
    /\ UNCHANGED <<pc, call, result>>

Next ==
    \/ Mkdir
    \/ WriteText
    \/ TestDirectoryStructure
    \/ IgnorePatternsTest
    \/ MaxDepthTest
    \/ GenerateTreeCall

Spec == Init /\ [][Next]_vars

(***************************************************************************)
(* Vocabulary of the properties.                                           *)
(***************************************************************************)
Done == pc = "done"

Cfg == call.v

Lines == result.v.lines

Stats == result.v.stats

Listed == result.v.listed

Entries == 1..Len(fs)

Directories == {Root} \cup {n \in Entries : IsDir(fs, n)}

ParentOf(n) == fs[n].parent

\* The directories an entry lies in, below the root.
RECURSIVE AncestorsOf(_)
AncestorsOf(n) ==
    IF ParentOf(n) = Root THEN {}
    ELSE {ParentOf(n)} \cup AncestorsOf(ParentOf(n))

\* The depth of a directory: 0 for the root, 1 for its subdirectories.
DirDepth(d) == IF d = Root THEN 0 ELSE 1 + Cardinality(AncestorsOf(d))

\* An entry survives if the matcher excludes neither it nor a directory it
\* lies in.
Surviving(n) ==
    \A a \in {n} \cup AncestorsOf(n) : ~Excluded(fs, Cfg.exclude_pattern, a)

LineIndexes == 1..Len(Lines)

Emitted(n) == \E i \in LineIndexes : Lines[i].item = n

\* The lines emitted for the immediate children of directory d.
FileLinesOf(d) ==
    {i \in LineIndexes : ParentOf(Lines[i].item) = d /\ IsFile(fs, Lines[i].item)}

DirLinesOf(d) ==
    {i \in LineIndexes : ParentOf(Lines[i].item) = d /\ IsDir(fs, Lines[i].item)}

WasListed(d) == \E k \in 1..Len(Listed) : Listed[k].directory = d

(***************************************************************************)
(* C1: among the lines of the immediate children of any directory, every   *)
(* file line precedes every subdirectory line.                             *)
(***************************************************************************)
C1_FilesBeforeDirectories ==
    Done => \A d \in Directories :
                \A i \in FileLinesOf(d), j \in DirLinesOf(d) : i < j

\* A nested directory was rendered with files and subdirectories of its own.
C1_Witness ==
    /\ Done
    /\ \E d \in Directories \ {Root} :
           FileLinesOf(d) # {} /\ DirLinesOf(d) # {}

(***************************************************************************)
(* C2: the file lines of one directory, and separately its directory       *)
(* lines, are in the order of the lower-cased names; entries whose         *)
(* lower-cased names are equal keep the order of the listing (the order    *)
(* of creation, that is of the entry numbers).                             *)
(***************************************************************************)
InSortedOrder(indexes) ==
    \A i, j \in indexes :
        i < j =>
            LET ki == Lower(Lines[i].name)
                kj == Lower(Lines[j].name)
            IN /\ ~StrLess(kj, ki)
               /\ (ki = kj => Lines[i].item < Lines[j].item)

C2_CaseInsensitiveStableOrder ==
    Done => \A d \in Directories :
                InSortedOrder(FileLinesOf(d)) /\ InSortedOrder(DirLinesOf(d))

\* The root's files env, Env, aenv, listed in this order, come out as aenv,
\* env, Env: aenv moves to the front although "E" < "a" by code point, and
\* env stays before Env, whose key is the same.
C2_Witness ==
    /\ Done
    /\ Len(Lines) = 3
    /\ \A i \in LineIndexes : ParentOf(Lines[i].item) = Root
                              /\ IsFile(fs, Lines[i].item)
    /\ Lines[1].name = NameAEnv /\ Lines[1].item = 3
    /\ Lines[2].name = NameEnv /\ Lines[2].item = 1
    /\ Lines[3].name = NameEnvCap /\ Lines[3].item = 2

(***************************************************************************)
(* C3: the lines of the subtree of an emitted directory follow its own     *)
(* line contiguously, with no line of another subtree among them.          *)
(***************************************************************************)
SubtreeLinesOf(d) ==
    {j \in LineIndexes : d \in AncestorsOf(Lines[j].item)}

C3_DepthFirstContiguous ==
    Done => \A i \in LineIndexes :
                IsDir(fs, Lines[i].item) =>
                    LET sub == SubtreeLinesOf(Lines[i].item)
                    IN sub = (i + 1)..(i + Cardinality(sub))

\* A directory with a rendered subtree is followed by a sibling's line.
C3_Witness ==
    /\ Done
    /\ \E i, j \in LineIndexes :
           /\ IsDir(fs, Lines[i].item)
           /\ SubtreeLinesOf(Lines[i].item) # {}
           /\ i < j
           /\ ParentOf(Lines[j].item) = ParentOf(Lines[i].item)

(***************************************************************************)
(* C4: with the default patterns, an entry is dropped, with its whole      *)
(* subtree, exactly if its name is one of the default names; an entry      *)
(* whose name merely contains a default name is rendered wherever its      *)
(* directory is rendered.                                                  *)
(***************************************************************************)
CacheSuffix == <<"_", "c", "a", "c", "h", "e">>

\* A name of the shape of the last default pattern: a dot, one or more
\* characters other than a newline, then _cache.
CacheDirName(name) ==
    /\ Len(name) > Len(CacheSuffix) + 1
    /\ name[1] = "."
    /\ SubSeq(name, Len(name) - Len(CacheSuffix) + 1, Len(name)) = CacheSuffix
    /\ \A i \in 2..(Len(name) - Len(CacheSuffix)) : name[i] # "\n"

ExactDefaultName(name) ==
    Anchored(name) \in DEFAULT_IGNORE_PATTERNS \/ CacheDirName(name)

\* The directory of n was listed and its loop reached the kind of n.
ParentShows(n) ==
    /\ WasListed(ParentOf(n))
    /\ IsDir(fs, n) => ~DepthReached(Cfg.max_depth, DirDepth(ParentOf(n)))

C4_ExactNameExclusion ==
    (Done /\ Cfg.exclude_pattern = compile_ignore_pattern(DEFAULT_IGNORE_PATTERNS)) =>
        \A n \in Entries :
            IF ExactDefaultName(NameOf(fs, n))
            THEN /\ ~Emitted(n) /\ ~WasListed(n)
                 /\ \A m \in Entries :
                        n \in AncestorsOf(m) => ~Emitted(m) /\ ~WasListed(m)
            ELSE ParentShows(n) => Emitted(n)

(***************************************************************************)
(* C5: generate_tree with a matcher returns the lines and the stats that   *)
(* generate_tree without a matcher returns on the tree from which every    *)
(* entry the matcher matches has been deleted with all that is beneath it. *)
(***************************************************************************)
Deleted == [parent |-> -1, kind |-> "deleted", name |-> <<>>, size |-> 0]

Pruned ==
    [n \in Entries |-> IF Surviving(n) THEN fs[n] ELSE Deleted]

C5_ExcludedInvisible ==
    (Done /\ Cfg.exclude_pattern.some) =>
        LET ref == generate_tree(Pruned, Root, <<>>, 0, TreeStats, <<>>,
                                 [Cfg EXCEPT !.exclude_pattern = None])
        IN Lines = ref.lines /\ Stats = ref.stats

\* test_ignore_patterns: __pycache__, which holds a file, is excluded from
\* a listed directory, and the entries that are kept have been rendered.
C5_Witness ==
    /\ Done
    /\ Cfg.exclude_pattern.some
    /\ fs = IgnorePatternsTestTree
    /\ \E d, m \in Entries :
           /\ IsDir(fs, d) /\ Excluded(fs, Cfg.exclude_pattern, d)
           /\ WasListed(ParentOf(d))
           /\ ParentOf(m) = d
    /\ Stats.directories = 2
    /\ Stats.files = 2
    /\ Len(Lines) = 4

(***************************************************************************)
(* C6: with no max depth, the final stats count the surviving directories  *)
(* below the root and the surviving files of all levels; the tree of       *)
(* test_directory_structure gives 3 directories and 4 files.               *)
(***************************************************************************)
SurvivingDirs == {n \in Entries : IsDir(fs, n) /\ Surviving(n)}

SurvivingFiles == {n \in Entries : IsFile(fs, n) /\ Surviving(n)}

C6_StatsCountSurvivors ==
    (Done /\ ~Cfg.max_depth.some) =>
        /\ Stats.directories = Cardinality(SurvivingDirs)
        /\ Stats.files = Cardinality(SurvivingFiles)
        /\ fs = TestDirectoryStructureTree =>
               Stats.directories = 3 /\ Stats.files = 4

C6_Witness ==
    /\ Done
    /\ ~Cfg.max_depth.some
    /\ fs = TestDirectoryStructureTree
    /\ Stats.directories = 3
    /\ Stats.files = 4

(***************************************************************************)
(* C7: for every listed directory, in every configuration, the file lines  *)
(* directly under it are as many as its post-filter files and the          *)
(* directory lines as many as its post-filter subdirectories, which are    *)
(* the numbers added to the stats for that level.                          *)
(***************************************************************************)
PostFilterFiles(d) ==
    {n \in Entries : ParentOf(n) = d /\ IsFile(fs, n)
                     /\ ~Excluded(fs, Cfg.exclude_pattern, n)}

PostFilterDirs(d) ==
    {n \in Entries : ParentOf(n) = d /\ IsDir(fs, n)
                     /\ ~Excluded(fs, Cfg.exclude_pattern, n)}

C7_LinesEqualCounts ==
    Done => \A k \in 1..Len(Listed) :
                LET d == Listed[k].directory
                IN /\ Cardinality(FileLinesOf(d)) = Cardinality(PostFilterFiles(d))
                   /\ Cardinality(DirLinesOf(d)) = Cardinality(PostFilterDirs(d))
                   /\ Listed[k].files = Cardinality(FileLinesOf(d))
                   /\ Listed[k].dirs = Cardinality(DirLinesOf(d))

(***************************************************************************)
(* C8: with size display the final total_size is the sum of the sizes of   *)
(* the surviving files of every visited level; without it, it is 0.        *)
(***************************************************************************)
RECURSIVE SumOfSizes(_)
SumOfSizes(files) ==
    IF files = {} THEN 0
    ELSE LET f == CHOOSE x \in files : TRUE
         IN fs[f].size + SumOfSizes(files \ {f})

VisitedFiles == {n \in SurvivingFiles : WasListed(ParentOf(n))}

C8_TotalSize ==
    Done => Stats.total_size =
                IF Cfg.show_size THEN SumOfSizes(VisitedFiles) ELSE 0

(***************************************************************************)
(* C9: with max_depth = N, exactly the surviving files of the directories  *)
(* at depths 0..N and the surviving subdirectories of the directories at   *)
(* depths 0..N-1 are rendered.  In the tree of test_max_depth with N = 1,  *)
(* level1 and shallow_file.txt are shown and level2, level3 and            *)
(* deep_file.txt are not.                                                  *)
(***************************************************************************)
WithinDepth(n, limit) ==
    IF IsFile(fs, n) THEN DirDepth(ParentOf(n)) <= limit
    ELSE DirDepth(ParentOf(n)) <= limit - 1

C9_DepthLimit ==
    (Done /\ Cfg.max_depth.some) =>
        /\ \A n \in Entries :
               Emitted(n) <=> (Surviving(n) /\ WithinDepth(n, Cfg.max_depth.v))
        /\ (fs = MaxDepthTestTree /\ Cfg.max_depth = Some(1)) =>
               /\ \A n \in Entries :
                      NameOf(fs, n) \in {<<"l", "e", "v", "e", "l", "1">>,
                          <<"s", "h", "a", "l", "l", "o", "w", "_", "f", "i",
                            "l", "e", ".", "t", "x", "t">>} => Emitted(n)
               /\ \A n \in Entries :
                      NameOf(fs, n) \in {<<"l", "e", "v", "e", "l", "2">>,
                          <<"l", "e", "v", "e", "l", "3">>,
                          <<"d", "e", "e", "p", "_", "f", "i", "l", "e", ".",
                            "t", "x", "t">>} => ~Emitted(n)

\* test_max_depth: the call with max_depth = 1 has rendered the file of
\* level1 and has not rendered level2, which survives the filter.
C9_Witness ==
    /\ Done
    /\ fs = MaxDepthTestTree
    /\ Cfg.max_depth = Some(1)
    /\ \E f, d \in Entries :
           /\ IsFile(fs, f) /\ DirDepth(ParentOf(f)) = 1 /\ Emitted(f)
           /\ IsDir(fs, d) /\ DirDepth(ParentOf(d)) = 1 /\ Surviving(d)
           /\ ~Emitted(d)

(***************************************************************************)
(* C10, as claimed: with max depth 1 the surviving entries of the root     *)
(* are shown and nothing that lies in a first-level subdirectory is.       *)
(***************************************************************************)
C10_NothingInsideFirstLevel ==
    (Done /\ Cfg.max_depth = Some(1)) =>
        \A n \in Entries :
            /\ (ParentOf(n) = Root /\ Surviving(n)) => Emitted(n)
            /\ DirDepth(ParentOf(n)) = 1 => ~Emitted(n)

(***************************************************************************)
(* C10, amended: with max depth 1 the surviving entries of the root are    *)
(* shown; of what lies in a first-level subdirectory the surviving files   *)
(* are shown and the directories are not; nothing deeper is shown.         *)
(***************************************************************************)
C10_FirstLevelFilesOnly ==
    (Done /\ Cfg.max_depth = Some(1)) =>
        \A n \in Entries :
            /\ (ParentOf(n) = Root /\ Surviving(n)) => Emitted(n)
            /\ DirDepth(ParentOf(n)) = 1 =>
                   (Emitted(n) <=> (IsFile(fs, n) /\ Surviving(n)))
            /\ DirDepth(ParentOf(n)) > 1 => ~Emitted(n)

\* A first-level subdirectory that survives holds a file, which is shown,
\* and a surviving directory with an entry of its own, which are not.
C10_Witness ==
    /\ Done
    /\ Cfg.max_depth = Some(1)
    /\ \E f, d, e \in Entries :
           /\ IsFile(fs, f) /\ DirDepth(ParentOf(f)) = 1 /\ Emitted(f)
           /\ IsDir(fs, d) /\ ParentOf(d) = ParentOf(f) /\ Surviving(d)
           /\ ~Emitted(d)
           /\ ParentOf(e) = d /\ ~Emitted(e)

(***************************************************************************)
(* C11: generate_tree on a directory with no entries returns no line and   *)
(* leaves the three counters of a fresh stats accumulator at zero; a       *)
(* nested directory with no entries adds no line and nothing to the stats. *)
(***************************************************************************)
C11_EmptyDirectory ==
    Done =>
        /\ fs = <<>> =>
               /\ Lines = <<>>
               /\ Stats.directories = 0
               /\ Stats.files = 0
               /\ Stats.total_size = 0
        /\ \A k \in 1..Len(Listed) :
               (\A n \in Entries : ParentOf(n) # Listed[k].directory) =>
                   /\ Listed[k].files = 0
                   /\ Listed[k].dirs = 0
                   /\ FileLinesOf(Listed[k].directory) = {}
                   /\ DirLinesOf(Listed[k].directory) = {}

\* test_empty_directory: the root has no entries and has been listed.
C11_Witness ==
    /\ Done
    /\ fs = <<>>
    /\ WasListed(Root)
    /\ Lines = <<>>

(***************************************************************************)
(* C12: among the lines emitted for the immediate children of any one      *)
(* directory, the last emitted line has the last-sibling connector and     *)
(* every other line the non-last connector, in every configuration.        *)
(***************************************************************************)
ChildLinesOf(d) == FileLinesOf(d) \cup DirLinesOf(d)

LastOf(indexes) == CHOOSE i \in indexes : \A j \in indexes : j <= i

C12_LastSiblingGlyph ==
    Done => \A d \in Directories :
                \A i \in ChildLinesOf(d) :
                    Lines[i].connector =
                        Connector(i = LastOf(ChildLinesOf(d)))

(***************************************************************************)
(* C13: the prefix of a line emitted for an entry whose directory is at    *)
(* depth k has exactly k segments; segment j is the blank guide if the     *)
(* directory at depth j on the path to the entry is the last surviving     *)
(* subdirectory of its parent in sorted order, and the continuation guide  *)
(* otherwise.                                                              *)
(***************************************************************************)
\* The directory at depth j (1 for the root's subdirectories) that n lies in.
AncestorAt(n, j) == CHOOSE a \in AncestorsOf(n) : DirDepth(a) = j

IsLastSurvivingDir(a) ==
    \A d \in PostFilterDirs(ParentOf(a)) \ {a} :
        \/ StrLess(SortKey(fs, d), SortKey(fs, a))
        \/ SortKey(fs, d) = SortKey(fs, a) /\ d < a

C13_PrefixSegments ==
    Done => \A i \in LineIndexes :
                LET n == Lines[i].item
                    k == DirDepth(ParentOf(n))
                IN /\ Len(Lines[i].prefix) = k
                   /\ \A j \in 1..k :
                          Lines[i].prefix[j] =
                              IF IsLastSurvivingDir(AncestorAt(n, j))
                              THEN "    " ELSE "|   "

\* test_complete_tree_structure: a line two levels down has been emitted,
\* and so has a line below a directory that is not the last of its parent.
C13_Witness ==
    /\ Done
    /\ fs = TestDirectoryStructureTree
    /\ \E i \in LineIndexes : Lines[i].prefix = <<"    ", "    ">>
    /\ \E i \in LineIndexes : Lines[i].prefix = <<"|   ">>

(***************************************************************************)
(* C15: every line rendered for a directory shows the name immediately     *)
(* followed by "/", and no line rendered for a file has a "/" after the    *)
(* name.                                                                   *)
(***************************************************************************)
\* What the f-string of process_tree_node puts after the name: color_end,
\* then a blank and the info parts joined by blanks if there are any.
RECURSIVE JoinWithBlanks(_)
JoinWithBlanks(parts) ==
    IF Len(parts) <= 1 THEN parts
    ELSE <<Head(parts), " ">> \o JoinWithBlanks(Tail(parts))

TextAfterName(line) ==
    (IF line.color_end = "" THEN <<>> ELSE <<line.color_end>>)
    \o (IF line.info = <<>> THEN <<>> ELSE <<" ">> \o JoinWithBlanks(line.info))

SlashAfterName(line) ==
    TextAfterName(line) # <<>> /\ Head(TextAfterName(line)) = "/"

C15_DirectoryTrailingSlash ==
    Done => \A i \in LineIndexes :
                SlashAfterName(Lines[i]) <=> IsDir(fs, Lines[i].item)

(***************************************************************************)
(* cli.py and the pattern file.  The text of a pattern file is the         *)
(* sequence of its lines as iterating over the open file yields them: a    *)
(* line keeps its newline (the last one may have none).  The patterns of   *)
(* the files and of -i use only characters that stand for themselves as    *)
(* tokens of a regular expression, so a pattern's text is its token        *)
(* sequence.                                                               *)
(***************************************************************************)
Whitespace == {" ", "\t", "\n", "\r"}

\* str.lstrip() and str.rstrip(); str.strip() is both.
RECURSIVE LStrip(_)
LStrip(s) ==
    IF s # <<>> /\ Head(s) \in Whitespace THEN LStrip(Tail(s)) ELSE s

RECURSIVE RStrip(_)
RStrip(s) ==
    IF s # <<>> /\ s[Len(s)] \in Whitespace
    THEN RStrip(SubSeq(s, 1, Len(s) - 1)) ELSE s

Strip(s) == RStrip(LStrip(s))

\* str.startswith(c) for a one-character c.
StartsWith(s, c) == s # <<>> /\ Head(s) = c

\* The pattern files of the environment, by path.  A path that cannot be
\* opened (open raises an OSError: no such file, no permission, a
\* directory) has readable = FALSE.
PatternFileAt(file_path) ==
    CASE file_path = "patterns.txt" ->
           [readable |-> TRUE,
            lines |-> << <<"#", " ", "c", "\n">>,
                         <<"\n">>,
                         <<"^", "E", "n", "v", "$", "\n">>,
                         <<" ", "\t", "\n">>,
                         <<" ", "d", "i", "r", "1", " ", "\n">>,
                         <<"^", "E", "n", "v", "$">> >>]
      [] file_path = "indented.txt" ->
           [readable |-> TRUE,
            lines |-> << <<" ", "#", "c", "\n">>,
                         <<"d", "i", "r", "1", "\n">> >>]
      [] file_path = "empty.txt" -> [readable |-> TRUE, lines |-> <<>>]
      [] OTHER -> [readable |-> FALSE, lines |-> <<>>]

\* line.strip() for line in pattern_file
\*     if line.strip() and not line.startswith("#")
ParsedLines(lines) ==
    { Strip(lines[k]) : k \in { i \in 1..Len(lines) :
          Strip(lines[i]) # <<>> /\ ~StartsWith(lines[i], "#") } }

\* patterns is empty when open raises an OSError (a warning is printed).
parse_pattern_file(file_path) ==
    LET pattern_file == PatternFileAt(file_path)
    IN IF pattern_file.readable THEN ParsedLines(pattern_file.lines) ELSE {}

\* Variant: only --no-ignore disables the patterns.
get_ignore_patterns_no_ignore_only(args) ==
    IF args.no_ignore THEN {}
    ELSE IF args.ignore_pattern.some /\ args.ignore_pattern.v # <<>>
         THEN DEFAULT_IGNORE_PATTERNS \cup {args.ignore_pattern.v}
    ELSE IF args.ignore_patterns.some /\ args.ignore_patterns.v # ""
         THEN DEFAULT_IGNORE_PATTERNS \cup parse_pattern_file(args.ignore_patterns.v)
    ELSE DEFAULT_IGNORE_PATTERNS

\* Variant: the patterns of the file replace the default set.
get_ignore_patterns_replace(args) ==
    IF args.no_ignore \/ args.show_all THEN {}
    ELSE IF args.ignore_pattern.some /\ args.ignore_pattern.v # <<>>
         THEN DEFAULT_IGNORE_PATTERNS \cup {args.ignore_pattern.v}
    ELSE IF args.ignore_patterns.some /\ args.ignore_patterns.v # ""
         THEN parse_pattern_file(args.ignore_patterns.v)
    ELSE DEFAULT_IGNORE_PATTERNS

\* "if args.ignore_pattern:" and "elif args.ignore_patterns:" are tests of
\* truth: None and the empty string are false.
get_ignore_patterns(args) ==
    IF args.no_ignore \/ args.show_all THEN {}
    ELSE IF args.ignore_pattern.some /\ args.ignore_pattern.v # <<>>
         THEN DEFAULT_IGNORE_PATTERNS \cup {args.ignore_pattern.v}
    ELSE IF args.ignore_patterns.some /\ args.ignore_patterns.v # ""
         THEN DEFAULT_IGNORE_PATTERNS \cup parse_pattern_file(args.ignore_patterns.v)
    ELSE DEFAULT_IGNORE_PATTERNS

\* The name of the target directory (config.target_dir.name).
TargetDirName == <<"p", "r", "o", "j", "e", "c", "t">>

TreeTxt == <<"t", "r", "e", "e", ".", "t", "x", "t">>

\* A target that holds the output of an earlier run and entries that the
\* patterns of -i and of the pattern files match or nearly match.
SampleTargetTree ==
    << [parent |-> 0, kind |-> "file", size |-> 5, name |-> TreeTxt],
       [parent |-> 0, kind |-> "dir", size |-> 0, name |-> NameEnvCap],
       [parent |-> 0, kind |-> "dir", size |-> 0,
         name |-> <<"d", "i", "r", "1", "0">>],
       [parent |-> 2, kind |-> "file", size |-> 2, name |-> NameEnv],
       [parent |-> 3, kind |-> "file", size |-> 14,
         name |-> <<"a", ".", "p", "y">>] >>

\* A target with directories the process may not read: one among the
\* root's own subdirectories, one a level further down.
RestrictedTargetTree ==
    << [parent |-> 0, kind |-> "file", size |-> 14,
         name |-> <<"a", ".", "p", "y">>],
       [parent |-> 0, kind |-> "dir", size |-> 0,
         name |-> <<"d", "i", "r", "1">>],
       [parent |-> 0, kind |-> "unreadable_dir", size |-> 0, name |-> NameEnv],
       [parent |-> 0, kind |-> "dir", size |-> 0,
         name |-> <<"l", "e", "v", "e", "l", "1">>],
       [parent |-> 2, kind |-> "file", size |-> 7,
         name |-> <<"f", "i", "l", "e", "1", ".", "t", "x", "t">>],
       [parent |-> 4, kind |-> "unreadable_dir", size |-> 0, name |-> NameEnvCap],
       [parent |-> 4, kind |-> "file", size |-> 2, name |-> NameAEnv] >>

\* The contents of the directory the command line is run on.
CliTargets ==
    { <<>>, TestDirectoryStructureTree, IgnorePatternsTestTree,
      SampleTargetTree, RestrictedTargetTree }

\* What args.path resolves to: the target directory, a regular file, or
\* nothing.
Paths == {"target", "notes.txt", "missing"}

PathExists(path) == path # "missing"

PathIsDir(path) == path = "target"

\* The values of -i and of -I on the command line.
UserPatterns == {<<>>, <<"^", "E", "n", "v", "$">>, <<"e", "n">>}

PatternFilePaths == {"", "patterns.txt", "indented.txt", "empty.txt", "unreadable.txt"}

\* The mutually exclusive group of the ignore options: at most one is given.
IgnoreOptions ==
    LET none == [ignore_pattern |-> None, ignore_patterns |-> None,
                 no_ignore |-> FALSE, show_all |-> FALSE]
    IN {none}
       \cup {[none EXCEPT !.ignore_pattern = Some(p)] : p \in UserPatterns}
       \cup {[none EXCEPT !.ignore_patterns = Some(f)] : f \in PatternFilePaths}
       \cup {[none EXCEPT !.no_ignore = TRUE], [none EXCEPT !.show_all = TRUE]}

\* The display flags on the command line, with what sys.stdout.isatty()
\* returns.
DisplayOptions ==
    { [size |-> FALSE, time |-> FALSE, color |-> FALSE, no_color |-> FALSE, isatty |-> TRUE],
      [size |-> TRUE, time |-> FALSE, color |-> TRUE, no_color |-> TRUE, isatty |-> TRUE],
      [size |-> TRUE, time |-> TRUE, color |-> TRUE, no_color |-> FALSE, isatty |-> TRUE],
      [size |-> FALSE, time |-> FALSE, color |-> TRUE, no_color |-> FALSE, isatty |-> FALSE] }

\* -o: absent, or a path outside the target directory.
Outputs == {None, Some("out.txt")}

\* The state of a run of main: nothing has happened yet.  previous is what
\* the run before it, if there was one, has rendered.
CliRun ==
    [exit_status |-> None, config |-> None, stats |-> None,
     lines |-> <<>>, listed |-> <<>>, raised |-> None, written |-> None,
     previous |-> None]

\* Variant: the target is not checked to be a directory.
create_tree_config_no_dir_check(args) ==
    IF ~PathExists(args.path)
    THEN [exit_status |-> Some(1), config |-> None]
    ELSE [exit_status |-> None,
          config |-> Some(
              [target_dir |-> Root,
               output_file |->
                   IF args.output.some /\ args.output.v # ""
                   THEN [in_target |-> FALSE, name |-> args.output.v]
                   ELSE [in_target |-> TRUE, name |-> TreeTxt],
               exclude_pattern |-> compile_ignore_pattern(get_ignore_patterns(args)),
               node_config |-> NodeConfig(args.size, args.time,
                                  args.color /\ ~args.no_color /\ args.isatty),
               max_depth |-> args.max_depth,
               show_stats |-> args.stats])]

\* The TreeConfig, or the status of sys.exit.
create_tree_config(args) ==
    IF ~PathExists(args.path)
    THEN [exit_status |-> Some(1), config |-> None]
    ELSE IF ~PathIsDir(args.path)
    THEN [exit_status |-> Some(1), config |-> None]
    ELSE [exit_status |-> None,
          config |-> Some(
              [target_dir |-> Root,
               output_file |->
                   IF args.output.some /\ args.output.v # ""
                   THEN [in_target |-> FALSE, name |-> args.output.v]
                   ELSE [in_target |-> TRUE, name |-> TreeTxt],
               exclude_pattern |-> compile_ignore_pattern(get_ignore_patterns(args)),
               node_config |-> NodeConfig(args.size, args.time,
                                  args.color /\ ~args.no_color /\ args.isatty),
               max_depth |-> args.max_depth,
               show_stats |-> args.stats])]

\* str(n) for n >= 0.
RECURSIVE Str(_)
Str(n) ==
    IF n < 10 THEN <<Alphabet[Ord("0") + n]>>
    ELSE Str(n \div 10) \o <<Alphabet[Ord("0") + (n % 10)]>>

SummaryHeader == <<"\n", "S", "u", "m", "m", "a", "r", "y", ":">>

DirectoriesText(stats) ==
    <<"D", "i", "r", "e", "c", "t", "o", "r", "i", "e", "s", ":", " ">>
    \o Str(stats.directories)

FilesText(stats) == <<"F", "i", "l", "e", "s", ":", " ">> \o Str(stats.files)

TotalSizeText(stats) ==
    <<"T", "o", "t", "a", "l", " ", "s", "i", "z", "e", ":", " ">>
    \o Str(stats.total_size)

\* An entry of the list of lines that is a text of its own.
TextLine(kind, text) == [kind |-> kind, text |-> text]

\* "*(text if show_size else [])" in a list display: the elements of the
\* iterable, in order.  The elements of a string are its characters.
Unpacked(text) == [i \in 1..Len(text) |-> TextLine("summary", <<text[i]>>)]

process_root_directory(tree, config, stats) ==
    generate_tree(tree, config.target_dir, <<>>, 0, stats, <<>>,
        [max_depth |-> config.max_depth,
         exclude_pattern |-> config.exclude_pattern,
         show_size |-> config.node_config.show_size,
         show_date |-> config.node_config.show_date,
         use_color |-> config.node_config.use_color])

\* Variant: the root's name is added after the tree lines.
OutputLinesRootLast(config, walk) ==
    [lines |-> IF walk.raised.some THEN <<>>
               ELSE [i \in 1..Len(walk.lines) |->
                        [kind |-> "tree", line |-> walk.lines[i]]]
                    \o <<TextLine("root", TargetDirName)>>,
     stats |-> walk.stats,
     listed |-> walk.listed,
     raised |-> walk.raised]

\* The list generate_output builds around the tree lines of the walk:
\* the root's name before them, the summary after them.
OutputLines(config, walk) ==
    LET tree_lines == [i \in 1..Len(walk.lines) |->
                          [kind |-> "tree", line |-> walk.lines[i]]]
        summary ==
            IF config.show_stats
            THEN << TextLine("summary", SummaryHeader),
                    TextLine("summary", DirectoriesText(walk.stats)),
                    TextLine("summary", FilesText(walk.stats)) >>
                 \o (IF config.node_config.show_size
                     THEN Unpacked(TotalSizeText(walk.stats)) ELSE <<>>)
            ELSE <<>>
    IN [lines |-> IF walk.raised.some THEN <<>>
                  ELSE (<<TextLine("root", TargetDirName)>> \o tree_lines) \o summary,
        stats |-> walk.stats,
        listed |-> walk.listed,
        raised |-> walk.raised]

\* The list of lines, with the stats object it has made and the record of
\* the directories listed.
generate_output(tree, config) ==
    OutputLines(config, process_root_directory(tree, config, TreeStats))

\* The bytes the output file takes.  It is opened with encoding utf-8 and
\* newline "\r\n": an ASCII character is one byte, a box-drawing glyph
\* three, a newline two.
CharBytes(c) == IF c = "\n" THEN 2 ELSE 1

RECURSIVE TextBytes(_)
TextBytes(text) ==
    IF text = <<>> THEN 0 ELSE CharBytes(Head(text)) + TextBytes(Tail(text))

GuideBytes(guide) == IF guide = "|   " THEN 6 ELSE 4

RECURSIVE PrefixBytes(_)
PrefixBytes(prefix) ==
    IF prefix = <<>> THEN 0
    ELSE GuideBytes(Head(prefix)) + PrefixBytes(Tail(prefix))

ColorBytes(code) ==
    IF code = "" THEN 0 ELSE IF code = COLORS.reset THEN 4 ELSE 5

\* "[" size with one decimal, unit "]", or "[YYYY-mm-dd HH:MM]".
InfoPartBytes(part) ==
    IF "size" \in DOMAIN part
    THEN 2 + Len(Str(part.size.tenths \div 10)) + 2
           + (IF part.size.unit = "B" THEN 1 ELSE 2)
    ELSE 18

\* A blank before each part.
RECURSIVE InfoBytes(_)
InfoBytes(info) ==
    IF info = <<>> THEN 0
    ELSE 1 + InfoPartBytes(Head(info)) + InfoBytes(Tail(info))

TreeLineBytes(line) ==
    PrefixBytes(line.prefix) + 12
    + ColorBytes(line.color_start) + TextBytes(line.name)
    + ColorBytes(line.color_end) + InfoBytes(line.info)

LineBytes(entry) ==
    IF entry.kind = "tree" THEN TreeLineBytes(entry.line)
    ELSE TextBytes(entry.text)

\* A line break before each line but the first.
RECURSIVE JoinedBytes(_)
JoinedBytes(lines) ==
    IF lines = <<>> THEN 0
    ELSE LineBytes(Head(lines)) + JoinedBytes(Tail(lines))
         + (IF Len(lines) > 1 THEN CharBytes("\n") ELSE 0)

\* len("\n".join(lines)) once encoded.
OutputBytes(lines) == JoinedBytes(lines)

\* The entries of the target named tree.txt.
TreeTxtEntries(tree) ==
    {n \in 1..Len(tree) : tree[n].parent = Root /\ tree[n].name = TreeTxt}

\* open(path, "w") and write: the file is created, or truncated and
\* written anew.
WriteTreeTxt(tree, size) ==
    IF TreeTxtEntries(tree) = {}
    THEN Append(tree, [parent |-> Root, kind |-> "file", size |-> size,
                       name |-> TreeTxt])
    ELSE [n \in 1..Len(tree) |->
             IF n \in TreeTxtEntries(tree) THEN [tree[n] EXCEPT !.size = size]
             ELSE tree[n]]

(***************************************************************************)
(* The command line: main() on a target directory.                         *)
(***************************************************************************)
CliInit ==
    /\ fs \in CliTargets
    /\ pc = "main"
    /\ call = None
    /\ result = None

\* create_parser().parse_args()
ParseArgs ==
    \E path \in Paths, max_depth \in MaxDepths, display \in DisplayOptions,
       output \in Outputs, stats \in BOOLEAN, ignore \in IgnoreOptions :
        /\ pc = "main"
        /\ pc' = "parsed"
        /\ call' = Some([path |-> path, max_depth |-> max_depth,
                         size |-> display.size, time |-> display.time,
                         color |-> display.color, no_color |-> display.no_color,
                         isatty |-> display.isatty,
                         output |-> output, stats |-> stats,
                         ignore_pattern |-> ignore.ignore_pattern,
                         ignore_patterns |-> ignore.ignore_patterns,
                         no_ignore |-> ignore.no_ignore,
                         show_all |-> ignore.show_all])
        /\ result' = Some(CliRun)
        /\ UNCHANGED fs

\* config = create_tree_config(args), which may call sys.exit(1).
CreateTreeConfig ==
    /\ pc = "parsed"
    /\ LET made == create_tree_config(call.v)
       IN /\ pc' = IF made.exit_status.some THEN "exit" ELSE "configured"
          /\ result' = Some([result.v EXCEPT !.exit_status = made.exit_status,
                                             !.config = made.config])
    /\ UNCHANGED <<fs, call>>

\* The run once generate_output has returned out, or has been left by the
\* exception of a listing: main catches nothing, the interpreter prints the
\* traceback and exits with status 1.
Returned(run, out) ==
    [run EXCEPT !.stats = Some(out.stats), !.lines = out.lines,
                !.listed = out.listed, !.raised = out.raised,
                !.exit_status = IF out.raised.some THEN Some(1) ELSE None]

\* lines = generate_output(config)
GenerateOutput ==
    /\ pc = "configured"
    /\ result' = Some(Returned(result.v, generate_output(fs, result.v.config.v)))
    /\ pc' = IF result'.v.raised.some THEN "exit" ELSE "generated"
    /\ UNCHANGED <<fs, call>>

\* open(path, "w") on a directory raises IsADirectoryError.
OpenRaises(tree, output_file) ==
    output_file.in_target /\ \E n \in TreeTxtEntries(tree) : IsDir(tree, n)

\* with open(config.output_file, "w", ...) as output_file: write; print.
WriteOutput ==
    /\ pc = "generated"
    /\ LET output_file == result.v.config.v.output_file
           lines == result.v.lines
       IN IF OpenRaises(fs, output_file)
          THEN /\ pc' = "exit"
               /\ result' = Some([result.v EXCEPT !.exit_status = Some(1)])
               /\ UNCHANGED fs
          ELSE /\ pc' = "end"
               /\ result' = Some([result.v EXCEPT
                                     !.exit_status = Some(0),
                                     !.written = Some([path |-> output_file,
                                                       lines |-> lines])])
               /\ fs' = IF output_file.in_target
                        THEN WriteTreeTxt(fs, OutputBytes(lines))
                        ELSE fs
    /\ UNCHANGED call

\* The command is run a second time with the same arguments, on the
\* target as the first run has left it.
RunAgain ==
    /\ pc = "end"
    /\ ~result.v.previous.some
    /\ result' = Some([CliRun EXCEPT
                          !.previous = Some([lines |-> result.v.lines,
                                             stats |-> result.v.stats.v])])
    /\ pc' = "parsed"
    /\ UNCHANGED <<fs, call>>

CliNext ==
    \/ ParseArgs
    \/ CreateTreeConfig
    \/ GenerateOutput
    \/ WriteOutput
    \/ RunAgain

CliSpec == CliInit /\ [][CliNext]_vars

(***************************************************************************)
(* Vocabulary of the properties of the command line.                       *)
(***************************************************************************)
Args == call.v

Run == result.v

Config == Run.config.v

\* generate_output has returned.
Generated == pc \in {"generated", "end"}

Output == Run.lines

TreeLineCount == Cardinality({i \in 1..Len(Output) : Output[i].kind = "tree"})

\* What follows the root's name and the tree lines.
AfterTree == SubSeq(Output, 2 + TreeLineCount, Len(Output))

IsPrefixOf(s, t) == Len(s) <= Len(t) /\ SubSeq(t, 1, Len(s)) = s

(***************************************************************************)
(* C16: when statistics are requested, what generate_output appends after  *)
(* the tree lines is exactly "\nSummary:", "Directories: N", "Files: N"    *)
(* with the final stats, and one further line "Total size: <value>" if     *)
(* and only if size display was requested.                                 *)
(***************************************************************************)
C16_SummaryBlock ==
    (Generated /\ Config.show_stats) =>
        /\ Len(AfterTree) = IF Config.node_config.show_size THEN 4 ELSE 3
        /\ AfterTree[1].text = SummaryHeader
        /\ AfterTree[2].text = DirectoriesText(Run.stats.v)
        /\ AfterTree[3].text = FilesText(Run.stats.v)
        /\ Config.node_config.show_size =>
               IsPrefixOf(<<"T", "o", "t", "a", "l", " ", "s", "i", "z", "e", ":", " ">>,
                          AfterTree[4].text)

(***************************************************************************)
(* C17, as claimed: with --no-ignore or --show-all there is no matcher     *)
(* and nothing is filtered; with -i REGEX the pattern set is the default   *)
(* set plus exactly that pattern; with -I FILE it is the default set plus  *)
(* the patterns parsed from the file; with none of them it is exactly the  *)
(* 19 default patterns.                                                    *)
(***************************************************************************)
\* create_tree_config has returned a configuration.
Configured == pc \in {"configured", "generated", "end"}

\* The pattern set the matcher of the configuration was compiled from.
PatternSet == IF Config.exclude_pattern.some THEN Config.exclude_pattern.v ELSE {}

\* The entries the tree lines were rendered for.
Rendered == {Output[i].line.item : i \in {k \in 1..Len(Output) : Output[k].kind = "tree"}}

NothingFiltered ==
    (pc = "generated" /\ ~Config.max_depth.some) => Rendered = 1..Len(fs)

C17_IgnoreOptionResolution ==
    Configured =>
        /\ (Args.no_ignore \/ Args.show_all) =>
               Config.exclude_pattern = None /\ NothingFiltered
        /\ Args.ignore_pattern.some =>
               PatternSet = DEFAULT_IGNORE_PATTERNS \cup {Args.ignore_pattern.v}
        /\ Args.ignore_patterns.some =>
               PatternSet = DEFAULT_IGNORE_PATTERNS
                                \cup parse_pattern_file(Args.ignore_patterns.v)
        /\ (~Args.no_ignore /\ ~Args.show_all /\ ~Args.ignore_pattern.some
            /\ ~Args.ignore_patterns.some) =>
               PatternSet = DEFAULT_IGNORE_PATTERNS /\ Cardinality(PatternSet) = 19

(***************************************************************************)
(* C17, amended: the same, except that -i with an empty REGEX adds         *)
(* nothing: the pattern set is then the default set.                       *)
(***************************************************************************)
C17_NonEmptyRegexAdded ==
    Configured =>
        /\ (Args.no_ignore \/ Args.show_all) =>
               Config.exclude_pattern = None /\ NothingFiltered
        /\ Args.ignore_pattern.some =>
               PatternSet = IF Args.ignore_pattern.v = <<>>
                            THEN DEFAULT_IGNORE_PATTERNS
                            ELSE DEFAULT_IGNORE_PATTERNS \cup {Args.ignore_pattern.v}
        /\ Args.ignore_patterns.some =>
               PatternSet = DEFAULT_IGNORE_PATTERNS
                                \cup parse_pattern_file(Args.ignore_patterns.v)
        /\ (~Args.no_ignore /\ ~Args.show_all /\ ~Args.ignore_pattern.some
            /\ ~Args.ignore_patterns.some) =>
               PatternSet = DEFAULT_IGNORE_PATTERNS /\ Cardinality(PatternSet) = 19

\* -i "^Env$" on the sample target: the set has the 19 default patterns and
\* the pattern given, and the directory Env has not been rendered.
C17_Witness ==
    /\ pc = "generated"
    /\ Args.ignore_pattern = Some(<<"^", "E", "n", "v", "$">>)
    /\ Cardinality(PatternSet) = 20
    /\ fs = SampleTargetTree
    /\ \E n \in 1..Len(fs) : NameOf(fs, n) = NameEnvCap /\ n \notin Rendered

(***************************************************************************)
(* C18: the patterns taken from a readable pattern file are its lines      *)
(* stripped of surrounding whitespace, without the blank lines and the     *)
(* lines starting with "#"; no pattern taken is empty or is a comment.     *)
(***************************************************************************)
\* The patterns the configuration has beyond the default ones.
FilePatterns == PatternSet \ DEFAULT_IGNORE_PATTERNS

C18_PatternFileParsing ==
    (Configured /\ Args.ignore_patterns.some
       /\ PatternFileAt(Args.ignore_patterns.v).readable) =>
        LET lines == PatternFileAt(Args.ignore_patterns.v).lines
            kept  == {i \in 1..Len(lines) :
                         Strip(lines[i]) # <<>> /\ ~StartsWith(lines[i], "#")}
        IN /\ FilePatterns = {Strip(lines[i]) : i \in kept}
           /\ \A p \in FilePatterns : p # <<>> /\ ~StartsWith(p, "#")

(***************************************************************************)
(* C19: when the file given with -I cannot be opened, parse_pattern_file   *)
(* returns no pattern, the pattern set is exactly the default set, and     *)
(* the run goes on: the target is traversed, the output is produced and    *)
(* written, and the exit status is 0.  (Only a directory of the target     *)
(* that cannot be listed ends such a run early.)                           *)
(***************************************************************************)
UnreadablePatternFile ==
    /\ call.some
    /\ Args.ignore_patterns.some
    /\ ~PatternFileAt(Args.ignore_patterns.v).readable

C20_InvalidTargetExits ==
    (call.some /\ ~PathIsDir(Args.path)) =>
        /\ pc \in {"parsed", "exit"}
        /\ pc = "exit" => Run.exit_status = Some(1)
        /\ Run.config = None
        /\ Run.stats = None
        /\ Run.listed = <<>>
        /\ Run.lines = <<>>
        /\ Run.written = None
        /\ fs \in CliTargets

\* The path of a regular file was given: main has exited with status 1.
C20_Witness ==
    /\ pc = "exit"
    /\ Args.path = "notes.txt"
    /\ Run.exit_status = Some(1)
    /\ Run.written = None

(***************************************************************************)
(* C21: if the listing of a directory fails during the traversal, at any   *)
(* depth, the failure reaches the caller of the whole traversal: no line   *)
(* list is returned, not even a partial one, no directory is listed a      *)
(* second time, and main writes no output file, since it opens the file    *)
(* only after generate_output has returned.                                *)
(***************************************************************************)
\* The traversal of the configuration comes to directory d: neither d nor a
\* directory it lies in is excluded, and d is not below the depth limit.
TraversalReaches(d) ==
    /\ \A a \in {d} \cup AncestorsOf(d) : ~Excluded(fs, Config.exclude_pattern, a)
    /\ Config.max_depth.some => DirDepth(d) <= Config.max_depth.v

ListingFails ==
    \E d \in Directories : IterdirRaises(fs, d) /\ TraversalReaches(d)

ListedDirectories == {Run.listed[k].directory : k \in 1..Len(Run.listed)}

C21_FailFastTraversal ==
    (call.some /\ Run.config.some /\ pc # "configured") =>
        IF ListingFails
        THEN /\ pc = "exit"
             /\ Run.exit_status = Some(1)
             /\ Run.raised.some
             /\ IterdirRaises(fs, Run.raised.v)
             /\ TraversalReaches(Run.raised.v)
             /\ Run.lines = <<>>
             /\ Run.raised.v \notin ListedDirectories
             /\ Cardinality(ListedDirectories) = Len(Run.listed)
             /\ Run.written = None
             /\ TreeTxtEntries(fs) = {}
        ELSE Run.raised = None

\* The listing of level1/Env, two levels below the root, has failed after
\* the root, dir1 and level1 were listed: main has exited, there are no
\* lines and no file.
C21_Witness ==
    /\ pc = "exit"
    /\ fs = RestrictedTargetTree
    /\ Run.raised = Some(6)
    /\ Len(Run.listed) = 3
    /\ Run.lines = <<>>
    /\ Run.written = None

\* The listing of env, a subdirectory of the root, has failed.
C21_WitnessTopLevel ==
    /\ pc = "exit"
    /\ fs = RestrictedTargetTree
    /\ Run.raised = Some(3)
    /\ Run.written = None

(***************************************************************************)
(* C22: the first line of what generate_output returns is the bare name    *)
(* of the target directory, and the tree lines of the target's contents    *)
(* follow it from the second line on, in the order of the traversal.       *)
(***************************************************************************)
\* The entries of the root that the configuration does not exclude.
RootContents ==
    {n \in Entries : ParentOf(n) = Root
                     /\ (IsFile(fs, n) \/ IsDir(fs, n))
                     /\ ~Excluded(fs, Config.exclude_pattern, n)}

\* The root's files, and its directories unless the depth limit is 0.
RootContentsRendered ==
    {n \in RootContents :
        IsDir(fs, n) => ~DepthReached(Config.max_depth, 0)}

C22_RootNameFirst ==
    Generated =>
        /\ Len(Output) >= 1
        /\ Output[1] = TextLine("root", TargetDirName)
        /\ \A i \in 2..Len(Output) :
               Output[i].kind = "tree" <=> i <= 1 + TreeLineCount
        /\ \A i \in 1..Len(Output) : Output[i].kind = "root" => i = 1
        /\ TreeLineCount >= 1 => Output[2].line.prefix = <<>>
        /\ pc = "generated" =>
               /\ RootContentsRendered # {} =>
                      /\ TreeLineCount >= 1
                      /\ Output[2].line.item \in RootContentsRendered
               /\ RootContentsRendered \subseteq Rendered
               /\ [i \in 1..TreeLineCount |-> Output[i + 1].line]
                      = process_root_directory(fs, Config, TreeStats).lines

\* The tree of the fixture with nothing filtered: the name of the target,
\* then file1.txt, the first of the seven tree lines.
C22_Witness ==
    /\ pc = "generated"
    /\ fs = TestDirectoryStructureTree
    /\ Output[1].text = TargetDirName
    /\ TreeLineCount = 7
    /\ Output[2].kind = "tree"
    /\ Output[2].line.item = 1
    /\ Output[8].line.item = 7

(***************************************************************************)
(* C23: the matcher excludes a bare name if and only if some pattern of    *)
(* the set matches the whole name; a name of which a pattern, anchored or  *)
(* not, matches only a proper prefix or an inner part is not excluded.     *)
(***************************************************************************)
\* Pattern p from token i matches the string s from position j up to its
\* very end (what re.fullmatch would accept).
RECURSIVE SpansFrom(_, _, _, _)
SpansFrom(p, i, s, j) ==
    IF i > Len(p) THEN j = Len(s) + 1
    ELSE CASE p[i] = "^" -> j = 1 /\ SpansFrom(p, i + 1, s, j)
           [] p[i] = "$" -> j = Len(s) + 1 /\ SpansFrom(p, i + 1, s, j)
           [] p[i] = ".+" ->
                \E k \in (j + 1)..(Len(s) + 1) :
                    /\ \A m \in j..(k - 1) : s[m] # "\n"
                    /\ SpansFrom(p, i + 1, s, k)
           [] OTHER ->
                j <= Len(s) /\ s[j] = p[i] /\ SpansFrom(p, i + 1, s, j + 1)

MatchesFullName(p, name) == SpansFrom(p, 1, name, 1)

C23_FullNameMatch ==
    Configured =>
        \A n \in Entries :
            Excluded(fs, Config.exclude_pattern, n)
                <=> \E p \in PatternSet : MatchesFullName(p, NameOf(fs, n))

\* An entry is excluded although no pattern of the set matches its whole
\* name: a pattern without anchors matches the beginning of the name.
C23_PrefixExcluded ==
    /\ Configured
    /\ \E n \in Entries :
          /\ Excluded(fs, Config.exclude_pattern, n)
          /\ \A p \in PatternSet : ~MatchesFullName(p, NameOf(fs, n))

(***************************************************************************)
(* C24: a traversal lists each directory at most once.  The root and       *)
(* every subdirectory whose line is emitted are listed exactly once; a     *)
(* directory that is excluded, lies in an excluded directory or lies below *)
(* the depth limit has no line and is never listed.                        *)
(***************************************************************************)
TimesListed(d) == Cardinality({k \in 1..Len(Listed) : Listed[k].directory = d})

WithinDepthLimit(d) == Cfg.max_depth.some => DirDepth(d) <= Cfg.max_depth.v

C24_ListedOnce ==
    Done =>
        /\ TimesListed(Root) = 1
        /\ \A k \in 1..Len(Listed) : Listed[k].directory \in Directories
        /\ \A d \in Directories \ {Root} :
              /\ TimesListed(d) <= 1
              /\ Emitted(d) => TimesListed(d) = 1
              /\ ~Emitted(d) => TimesListed(d) = 0
              /\ Emitted(d) <=> (Surviving(d) /\ WithinDepthLimit(d))

\* The tree of test_max_depth with max_depth = 2: the root, dir1, dir2,
\* level1 and level2 are listed once each; level3, below the limit, is not
\* listed.
C24_Witness ==
    /\ Done
    /\ Cfg.max_depth = Some(2)
    /\ fs = MaxDepthTestTree
    /\ Len(Listed) = 5
    /\ TimesListed(6) = 1
    /\ ~Emitted(8)
    /\ TimesListed(8) = 0

\* The tree of test_ignore_patterns with the default patterns: __pycache__
\* is excluded and not listed.
C24_WitnessExcluded ==
    /\ Done
    /\ fs = IgnorePatternsTestTree
    /\ Cfg.exclude_pattern.some
    /\ ~Emitted(3)
    /\ TimesListed(3) = 0
    /\ TimesListed(1) = 1

(***************************************************************************)
(* The traversal step by step.  To ask whether generate_tree returns, the  *)
(* recursion is unfolded into its call stack: one frame per call of        *)
(* generate_tree that has not returned, one step per call and per return.  *)
(* Only what decides which directories are listed is kept (the directories *)
(* of each level after sorting and filtering, the depth), not the lines.   *)
(* Entries may be symbolic links here: a link entry names in target the    *)
(* entry it resolves to (Root for the target directory itself).            *)
(***************************************************************************)
\* The number of symbolic links the system follows while resolving one
\* path; beyond it, stat fails with ELOOP (Linux: 40).
MAXSYMLINKS == 40

\* sys.getrecursionlimit(): the depth of the interpreter's stack at which a
\* further call raises RecursionError.
RecursionLimit == 1000

IsLink(tree, item) == item # Root /\ tree[item].kind = "link"

\* The entry a path ending in item resolves to.
Resolved(tree, item) == IF IsLink(tree, item) THEN tree[item].target ELSE item

\* The symbolic links in the path of item, links of them in the path of
\* the directory it was found in.
LinksTo(tree, item, links) == IF IsLink(tree, item) THEN links + 1 ELSE links

\* item.is_dir() for an entry found under a path with that many links:
\* is_dir follows links, and answers False when stat fails with ELOOP.
FollowedIsDir(tree, item, links) ==
    /\ LinksTo(tree, item, links) <= MAXSYMLINKS
    /\ IsDir(tree, Resolved(tree, item))

\* The directories process_directory_items returns for a directory reached
\* through that many links: sorted, then filtered by the bare names.
WalkDirs(tree, directory, links, exclude_pattern) ==
    SelectSeq(Sorted(tree, SelectSeq(Iterdir(tree, directory),
                                     LAMBDA i : FollowedIsDir(tree, i, links))),
              LAMBDA d : ~Excluded(tree, exclude_pattern, d))

\* A walk that has called generate_tree on item: the directory is listed
\* and its subdirectories are counted before anything else happens.
Entered(walk, tree, item, links, depth, cfg) ==
    LET dirs == WalkDirs(tree, Resolved(tree, item), LinksTo(tree, item, links),
                         cfg.exclude_pattern)
    IN [stack |-> Append(walk.stack,
                         [directory |-> Resolved(tree, item),
                          links |-> LinksTo(tree, item, links),
                          current_depth |-> depth,
                          dirs |-> dirs,
                          index |-> 1]),
        listings |-> walk.listings + 1,
        directories |-> walk.directories + Len(dirs)]

\* a/f.txt and a/loop -> .. : the link resolves to the target directory.
LoopTree ==
    << [parent |-> 0, kind |-> "dir", size |-> 0, name |-> <<"a">>],
       [parent |-> 1, kind |-> "file", size |-> 0,
         name |-> <<"f", ".", "t", "x", "t">>],
       [parent |-> 1, kind |-> "link", size |-> 0, target |-> 0,
         name |-> <<"l", "o", "o", "p">>] >>

\* The nesting of DeepLoopTree.
ChainLength == 30

\* n/n/.../n, thirty directories deep, and in the innermost one a link
\* to the target directory.
DeepLoopTree ==
    [i \in 1..(ChainLength + 1) |->
        IF i <= ChainLength
        THEN [parent |-> i - 1, kind |-> "dir", size |-> 0, name |-> <<"n">>]
        ELSE [parent |-> ChainLength, kind |-> "link", size |-> 0,
              target |-> 0, name |-> <<"l", "o", "o", "p">>]]

WalkTargets ==
    {TestDirectoryStructureTree, MaxDepthTestTree, LoopTree, DeepLoopTree}

WalkInit ==
    /\ fs \in WalkTargets
    /\ pc = "start"
    /\ call = None
    /\ result = None

\* generate_tree(directory=root, stats=TreeStats(), ...)
CallGenerateTree ==
    /\ pc = "start"
    /\ \E max_depth \in MaxDepths, exclude_pattern \in ExcludePatterns :
          LET cfg == [max_depth |-> max_depth, exclude_pattern |-> exclude_pattern]
          IN /\ call' = Some(cfg)
             /\ result' = Some(Entered([stack |-> <<>>, listings |-> 0,
                                        directories |-> 0],
                                       fs, Root, 0, 0, cfg))
    /\ pc' = "walking"
    /\ UNCHANGED fs

\* The frame of the call of generate_tree that is running.
Top == result.v.stack[Len(result.v.stack)]

\* The loop over dirs has an iteration left and the depth check lets the
\* call come to it.
LoopGoesOn ==
    /\ ~DepthReached(call.v.max_depth, Top.current_depth)
    /\ Top.index <= Len(Top.dirs)

\* An iteration of the loop over dirs: the recursive call.  A call beyond
\* the interpreter's recursion limit raises RecursionError, which nothing
\* catches.
Recurse ==
    /\ pc = "walking"
    /\ LoopGoesOn
    /\ IF Len(result.v.stack) >= RecursionLimit
       THEN /\ pc' = "RecursionError"
            /\ UNCHANGED result
       ELSE LET n == Len(result.v.stack)
                advanced == [result.v EXCEPT !.stack[n].index = @ + 1]
            IN /\ result' = Some(Entered(advanced, fs, Top.dirs[Top.index],
                                         Top.links, Top.current_depth + 1, call.v))
               /\ pc' = "walking"
    /\ UNCHANGED <<fs, call>>

\* return lines: at the depth limit, or after the last directory.
Return ==
    /\ pc = "walking"
    /\ ~LoopGoesOn
    /\ result' = Some([result.v EXCEPT
                          !.stack = SubSeq(@, 1, Len(@) - 1)])
    /\ pc' = IF Len(result.v.stack) = 1 THEN "returned" ELSE "walking"
    /\ UNCHANGED <<fs, call>>

WalkNext ==
    \/ CallGenerateTree
    \/ Recurse
    \/ Return

\* The interpreter runs the call once it is made and never stops by itself.
WalkSpec == WalkInit /\ [][WalkNext]_vars /\ WF_vars(WalkNext)

(***************************************************************************)
(* C25: termination.  On every finite directory structure generate_tree   *)
(* returns after finitely many directory listings, with or without a max   *)
(* depth, also when a directory holds a symbolic link that resolves to one *)
(* of its own ancestors.  A call that is made either is still running or   *)
(* has returned: it never ends in another way.  (Every step of a running   *)
(* call pushes a frame on a stack that is bounded or pops one, and lists   *)
(* a directory only when it pushes, so a call that does not end by an      *)
(* exception returns after finitely many listings.)                        *)
(***************************************************************************)
C25_Termination == pc \in {"start", "walking", "returned"}

\* a/loop -> .. without a max depth: the traversal returns, after 82
\* listings, when the path has taken up the 40 links the system follows.
C25_LoopReturns ==
    /\ pc = "returned"
    /\ fs = LoopTree
    /\ call.v.max_depth = None
    /\ call.v.exclude_pattern = None
    /\ result.v.listings = 82
    /\ result.v.directories = 81

\* The link at the bottom of thirty nested directories, without a max
\* depth: the recursion limit is reached before the limit on links.
C25_DeepLoopRaises ==
    /\ pc = "RecursionError"
    /\ fs = DeepLoopTree
    /\ call.v.max_depth = None
    /\ Top.links < MAXSYMLINKS

\* Without links the traversal returns, and so it does with a max depth.
C25_ReturnsUnlessUnboundedLoop ==
    pc = "RecursionError" =>
        /\ call.v.max_depth = None
        /\ \E n \in 1..Len(fs) : IsLink(fs, n)

(***************************************************************************)
(* C26: the rendered lines and the final stats do not depend on the order  *)
(* in which the listing returns the entries of a directory: with the       *)
(* entries of any directory listed in another order, also when names       *)
(* differ only in letter case, generate_tree produces the same output.     *)
(***************************************************************************)
\* generate_tree(directory=root, stats=TreeStats(), show_size=True,
\* show_date=True, use_color=True, ...): every part of a line is rendered.
\* (The lines of a call that shows less are these lines with parts left
\* out.)
GenerateTreeDetailed ==
    \E max_depth \in MaxDepths, exclude_pattern \in ExcludePatterns :
        LET cfg == [max_depth |-> max_depth,
                    exclude_pattern |-> exclude_pattern,
                    show_size |-> TRUE,
                    show_date |-> TRUE,
                    use_color |-> TRUE]
        IN /\ pc = "setup"
           /\ pc' = "done"
           /\ call' = Some(cfg)
           /\ result' = Some(generate_tree(fs, Root, <<>>, 0, TreeStats, <<>>, cfg))
           /\ UNCHANGED fs

ListingNext ==
    \/ Mkdir
    \/ WriteText
    \/ TestDirectoryStructure
    \/ IgnorePatternsTest
    \/ MaxDepthTest
    \/ GenerateTreeDetailed

\* The trees the environment builds, each traversed with all details shown.
ListingSpec == Init /\ [][ListingNext]_vars

\* Two entries of the same directory.
Siblings == {p \in Entries \X Entries :
                p[1] < p[2] /\ ParentOf(p[1]) = ParentOf(p[2])}

\* Two entries of the same directory that the listing returns one right
\* after the other.  (Exchanging neighbours, again and again, brings the
\* listing of a directory into any order.)
Neighbours == {p \in Siblings :
                  \A n \in (p[1] + 1)..(p[2] - 1) : ParentOf(n) # ParentOf(p[1])}

\* The place of entry n once i and j have exchanged theirs.
Exchanged(i, j, n) == IF n = i THEN j ELSE IF n = j THEN i ELSE n

\* The same entries with the siblings i and j listed in each other's place.
ListedInOtherOrder(tree, i, j) ==
    [n \in 1..Len(tree) |->
        [tree[Exchanged(i, j, n)] EXCEPT !.parent = Exchanged(i, j, @)]]

\* The info parts of a line, with the entry whose modification time is
\* shown named as in fs.
InfoInOtherOrder(info, i, j) ==
    [m \in 1..Len(info) |->
        IF "mtime" \in DOMAIN info[m]
        THEN [mtime |-> Exchanged(i, j, info[m].mtime)]
        ELSE info[m]]

\* The lines of a traversal of the tree listed in the other order, each
\* with the entry it renders named as in fs.
LinesInOtherOrder(walk, i, j) ==
    [k \in 1..Len(walk.lines) |->
        [walk.lines[k] EXCEPT !.item = Exchanged(i, j, @),
                              !.info = InfoInOtherOrder(@, i, j)]]

TraversalInOtherOrder(i, j) ==
    generate_tree(ListedInOtherOrder(fs, i, j), Root, <<>>, 0, TreeStats, <<>>, Cfg)

\* The traversal walk, of the tree with i and j exchanged, has the lines
\* and the stats of the traversal of fs.
SameOutput(walk, i, j) ==
    LinesInOtherOrder(walk, i, j) = Lines /\ walk.stats = Stats

C26_ListingOrderIndependent ==
    Done => \A p \in Neighbours :
                SameOutput(TraversalInOtherOrder(p[1], p[2]), p[1], p[2])

\* Two files, or two subdirectories, of one directory whose names differ
\* only in letter case: their sort keys are equal.
CaseTies ==
    {p \in Siblings :
        /\ IsDir(fs, p[1]) = IsDir(fs, p[2])
        /\ Lower(NameOf(fs, p[1])) = Lower(NameOf(fs, p[2]))}

\* The traversal walk, of the tree with the neighbours i and j exchanged,
\* has the stats of the traversal of fs, and its lines unless i and j are
\* a case tie.
SameOutputUnlessCaseTies(walk, i, j) ==
    /\ walk.stats = Stats
    /\ <<i, j>> \notin CaseTies => LinesInOtherOrder(walk, i, j) = Lines

(***************************************************************************)
(* C26, amended: the stats never depend on the order of the listing, and   *)
(* the lines do not unless some directory holds two files, or two          *)
(* subdirectories, whose names differ only in letter case: exchanging two  *)
(* neighbours of a listing changes the lines only if the two are such a    *)
(* pair.                                                                   *)
(***************************************************************************)
C26_OrderIndependentUnlessCaseTies ==
    Done => \A p \in Neighbours :
                SameOutputUnlessCaseTies(TraversalInOtherOrder(p[1], p[2]),
                                         p[1], p[2])

\* No two names differ only in case, and two files of one directory are
\* rendered in the reverse of the order they are listed in: sorting has
\* acted, and listing them the other way round gives the same lines.
C26_Witness ==
    /\ Done
    /\ CaseTies = {}
    /\ \E p \in Neighbours :
          /\ IsFile(fs, p[1]) /\ IsFile(fs, p[2])
          /\ \E a, b \in LineIndexes :
                a < b /\ Lines[a].item = p[2] /\ Lines[b].item = p[1]

\* env and Env, files of one directory, come out in the order of the
\* listing: the other order gives other lines.
C26_CaseTieFollowsListing ==
    /\ Done
    /\ \E p \in CaseTies \cap Neighbours :
          /\ Emitted(p[1]) /\ Emitted(p[2])
          /\ LinesInOtherOrder(TraversalInOtherOrder(p[1], p[2]), p[1], p[2]) # Lines

(***************************************************************************)
(* C27: two consecutive runs of the command with the same arguments and    *)
(* the default output path, on a target that nothing else changes between  *)
(* them, produce the same tree lines and the same statistics: writing the  *)
(* output file of the first run does not change what the second renders.   *)
(***************************************************************************)
TreeLinesOf(lines) == SelectSeq(lines, LAMBDA l : l.kind = "tree")

\* The second run has rendered, with the output file in the target.
SecondRunRendered ==
    /\ Generated
    /\ Run.previous.some
    /\ Config.output_file.in_target

C27_SecondRunRendersTheSame ==
    SecondRunRendered =>
        /\ TreeLinesOf(Output) = TreeLinesOf(Run.previous.v.lines)
        /\ Run.stats.v = Run.previous.v.stats

\* The second run on the tree of the fixture renders tree.txt, the file the
\* first run has written, and counts it: one line and one file more.
C27_OutputFileRendered ==
    /\ pc = "generated"
    /\ SecondRunRendered
    /\ Len(fs) = Len(TestDirectoryStructureTree) + 1
    /\ SubSeq(fs, 1, Len(TestDirectoryStructureTree)) = TestDirectoryStructureTree
    /\ ~Config.max_depth.some
    /\ Len(TreeLinesOf(Output)) = 8
    /\ Len(TreeLinesOf(Run.previous.v.lines)) = 7
    /\ \E n \in TreeTxtEntries(fs) : n \in Rendered
    /\ Run.stats.v.files = Run.previous.v.stats.files + 1

\* The target held a tree.txt before the first run, and sizes are shown:
\* the second run shows the size the first run has given the file.
C27_OutputFileSizeChanged ==
    /\ pc = "generated"
    /\ SecondRunRendered
    /\ Len(fs) = Len(SampleTargetTree)
    /\ SubSeq(fs, 2, Len(fs)) = SubSeq(SampleTargetTree, 2, Len(fs))
    /\ Len(TreeLinesOf(Output)) = Len(TreeLinesOf(Run.previous.v.lines))
    /\ TreeLinesOf(Output) # TreeLinesOf(Run.previous.v.lines)
    /\ Run.stats.v = Run.previous.v.stats

====
